---- MODULE Spec2Model ----
(***************************************************************************)
(* A model of the example-gallery extension of sphinx-astropy:             *)
(*   - preprocessor.py : detect_examples, preprocess_example_pages         *)
(*   - examplepages.py : ExampleContentDirective (run and its node         *)
(*                       rewriting helpers)                                *)
(*   - marker.py       : format_title_to_example_id                        *)
(*                                                                         *)
(* Strings.  A path or URI string is modelled by the list Python's         *)
(* s.split('/') gives for it: a non-empty sequence of slash-free           *)
(* components.  '' is <<"">>, '/' is <<"", "">>, 'a/b' is <<"a", "b">>,     *)
(* 'http://a' is <<"http:", "", "a">>.  The correspondence is one to one,  *)
(* so every posixpath function below is computed on this list exactly as   *)
(* the library computes it on the string.                                  *)
(* Titles and tag options are sequences of one-character strings.          *)
(***************************************************************************)
EXTENDS Integers, Sequences, FiniteSets, TLC

(***************************************************************************)
(* Bounds of the model.                                                    *)
(***************************************************************************)
MaxSegs == 3        \* components of a target / uri string

(***************************************************************************)
(* Generic sequence helpers.                                               *)
(***************************************************************************)
Front(s) == SubSeq(s, 1, Len(s) - 1)

Last(s) == s[Len(s)]

SeqsUpTo(S, n) == UNION {[1..k -> S] : k \in 0..n}

NonEmptySeqsUpTo(S, n) == UNION {[1..k -> S] : k \in 1..n}

RECURSIVE DropEmpty(_)
\* [x for x in s.split('/') if x]
DropEmpty(s) ==
    IF s = <<>> THEN <<>>
    ELSE IF s[1] = "" THEN DropEmpty(Tail(s))
    ELSE <<s[1]>> \o DropEmpty(Tail(s))

RECURSIVE CommonPrefixLen(_, _)
\* len(os.path.commonprefix([a, b])) on two lists
CommonPrefixLen(a, b) ==
    IF a = <<>> \/ b = <<>> THEN 0
    ELSE IF a[1] # b[1] THEN 0
    ELSE 1 + CommonPrefixLen(Tail(a), Tail(b))

RECURSIVE Repeat(_, _)
Repeat(x, n) == IF n <= 0 THEN <<>> ELSE <<x>> \o Repeat(x, n - 1)

(***************************************************************************)
(* Strings as split('/') lists.                                            *)
(***************************************************************************)
EmptyStr == <<"">>

\* s.startswith('/')
StartsWithSlash(s) == Len(s) >= 2 /\ s[1] = ""

\* '/' + s
SlashPlus(s) == <<"">> \o s

\* HTTP_URI = re.compile(r'^http(s?)://') ; HTTP_URI.match(s)
HTTP_URI(s) == Len(s) >= 3 /\ s[1] \in {"http:", "https:"} /\ s[2] = ""

(***************************************************************************)
(* posixpath, as CPython implements it.                                    *)
(***************************************************************************)
\* posixpath.join(a, b)
PathJoin(a, b) ==
    IF StartsWithSlash(b) THEN b
    ELSE IF Last(a) = "" THEN Front(a) \o b
    ELSE a \o b

\* the number of leading slashes posixpath.normpath keeps (0, 1 or 2)
InitialSlashes(s) ==
    IF ~StartsWithSlash(s) THEN 0
    ELSE IF Len(s) >= 3 /\ s[2] = "" /\ ~(Len(s) >= 4 /\ s[3] = "") THEN 2
    ELSE 1

RECURSIVE NormComps(_, _, _)
\* the loop of posixpath.normpath over comps, new_comps in acc
NormComps(comps, acc, slashes) ==
    IF comps = <<>> THEN acc
    ELSE LET c == comps[1]
             rest == Tail(comps)
         IN  IF c \in {"", "."} THEN NormComps(rest, acc, slashes)
             ELSE IF c # ".."
                     \/ (slashes = 0 /\ acc = <<>>)
                     \/ (acc # <<>> /\ Last(acc) = "..")
                  THEN NormComps(rest, Append(acc, c), slashes)
             ELSE IF acc # <<>> THEN NormComps(rest, Front(acc), slashes)
             ELSE NormComps(rest, acc, slashes)

\* '/' * k + '/'.join(comps), or '.' when that is empty
JoinComps(k, comps) ==
    IF k = 0 THEN (IF comps = <<>> THEN <<".">> ELSE comps)
    ELSE IF comps = <<>> THEN Repeat("", k + 1)
    ELSE Repeat("", k) \o comps

NormPathFrom(s, k) == JoinComps(k, NormComps(s, <<>>, k))

\* posixpath.normpath(s)
NormPath(s) == NormPathFrom(s, InitialSlashes(s))

\* posixpath.abspath(s) with os.getcwd() = wd
AbsPath(s, wd) == NormPath(IF StartsWithSlash(s) THEN s ELSE PathJoin(wd, s))

\* posixpath.relpath(path, start) for a non-empty path ('' raises ValueError)
\* [pardir] * (len(start_list) - i) + path_list[i:], joined; '.' when empty
RelList(start_list, path_list, i) ==
    JoinComps(0, Repeat("..", Len(start_list) - i)
                 \o SubSeq(path_list, i + 1, Len(path_list)))

RelPathFrom(start_list, path_list) ==
    RelList(start_list, path_list, CommonPrefixLen(start_list, path_list))

RelPath(path, start, wd) ==
    RelPathFrom(DropEmpty(AbsPath(start, wd)), DropEmpty(AbsPath(path, wd)))

RECURSIVE RStripSlashes(_)
\* head.rstrip('/') of a head that is not made of slashes only
RStripSlashes(s) ==
    IF Len(s) >= 2 /\ Last(s) = "" THEN RStripSlashes(Front(s)) ELSE s

\* posixpath.dirname(s)
DirName(s) ==
    IF Len(s) = 1 THEN EmptyStr
    ELSE IF \A i \in 1..(Len(s) - 1) : s[i] = "" THEN Front(s) \o <<"">>
    ELSE RStripSlashes(Front(s))

(***************************************************************************)
(* Docutils nodes of an example's content, as records of the attributes    *)
(* the directive reads and writes.                                         *)
(***************************************************************************)
Segs == {"", ".", "..", "a", "http:", "https:"}

\* every string of at most MaxSegs components ('' included)
Strs == NonEmptySeqsUpTo(Segs, MaxSegs)

\* docnames of source pages (node['refdoc'], example['docname'])
SourceDocnames == {<<"index">>, <<"a", "page">>}

\* docnames of standalone example pages (env.docname)
PageDocnames == {<<"ex">>, <<"examples", "ex">>}

\* os.getcwd() of the build
Cwds == {<<"", "">>, <<"", "w">>}

\* The roles that make pending_xref and download_reference nodes accept an
\* empty target (:doc:`title <>`); an image directive and an embedded URI
\* need a non-empty argument.
PendingXrefs ==
    [kind : {"pending_xref"}, refdoc : SourceDocnames, reftarget : Strs,
     refdomain : {"std", "py"}, reftype : {"doc", "ref"}]

Images == [kind : {"image"}, uri : Strs \ {EmptyStr}]

DownloadReferences ==
    [kind : {"download_reference"}, refdoc : SourceDocnames, reftarget : Strs]

References ==
    [kind : {"reference"}, refuri : Strs \ {EmptyStr}]
        \cup {[kind |-> "reference"]}

NoNode == [kind |-> "none"]

\* '/' + posixpath.normpath(posixpath.join(origin, posixpath.relpath(target,
\*                                                      start=origin)))
AbsTarget(origin, target, wd) ==
    SlashPlus(NormPath(PathJoin(origin, RelPath(target, origin, wd))))

\* ExampleContentDirective._process_pending_xref; raised: relpath('') raised
\* ValueError (after refdoc was switched)
process_pending_xref(n, env_docname, wd) ==
    LET origin_docname == n.refdoc
        n1 == [n EXCEPT !.refdoc = env_docname]
    IN  IF n.refdomain = "std" /\ n.reftype = "doc"
           /\ ~StartsWithSlash(n.reftarget)
        THEN IF n.reftarget = EmptyStr
             THEN [node |-> n1, raised |-> TRUE]
             ELSE [node |-> [n1 EXCEPT !.reftarget =
                                AbsTarget(origin_docname, n.reftarget, wd)],
                   raised |-> FALSE]
        ELSE [node |-> n1, raised |-> FALSE]

\* _process_pending_image without its HTTP_URI test
process_pending_image_no_http_test(n, example_docname, wd) ==
    IF ~StartsWithSlash(n.uri)
    THEN [node |-> [n EXCEPT !.uri = AbsTarget(example_docname, n.uri, wd)],
          raised |-> FALSE]
    ELSE [node |-> n, raised |-> FALSE]

\* ExampleContentDirective._process_pending_image (os.path is posixpath)
process_pending_image(n, example_docname, wd) ==
    IF ~HTTP_URI(n.uri) /\ ~StartsWithSlash(n.uri)
    THEN [node |-> [n EXCEPT !.uri = AbsTarget(example_docname, n.uri, wd)],
          raised |-> FALSE]
    ELSE [node |-> n, raised |-> FALSE]

\* ExampleContentDirective._process_download_reference
process_download_reference(n, env_docname, wd) ==
    LET original_reftarget == n.reftarget
        origin_docname == n.refdoc
        n1 == [n EXCEPT !.refdoc = env_docname]
    IN  IF StartsWithSlash(original_reftarget) THEN [node |-> n, raised |-> FALSE]
        ELSE IF HTTP_URI(original_reftarget) THEN [node |-> n, raised |-> FALSE]
        ELSE IF n.reftarget = EmptyStr THEN [node |-> n1, raised |-> TRUE]
        ELSE [node |-> [n1 EXCEPT !.reftarget =
                           AbsTarget(origin_docname, n.reftarget, wd)],
              raised |-> FALSE]

\* ExampleContentDirective._process_reference
process_reference(n, example_docname, env_docname, wd) ==
    IF "refuri" \in DOMAIN n /\ ~HTTP_URI(n.refuri)
    THEN LET uri == RelPath(
                        NormPath(PathJoin(example_docname,
                                          RelPath(n.refuri, example_docname, wd))),
                        DirName(env_docname), wd)
         IN  [node |-> [n EXCEPT !.refuri = uri], raised |-> FALSE]
    ELSE [node |-> n, raised |-> FALSE]

(***************************************************************************)
(* Titles, tags and source text.                                           *)
(* A title, a tag or the value of a :tags: option is a sequence of         *)
(* one-character strings.  The text of a source file is the list of its    *)
(* lines, text.split('\n'): a text that ends with a newline has an empty   *)
(* last line.  A line is one of                                            *)
(*   [kind "example", indent, title]  ' ' * indent + '.. example:: ' + title*)
(*                                    (indent > 0: the directive is nested  *)
(*                                    in a list item or another directive)  *)
(*   [kind "tags", value]             '   :tags: ' + value                  *)
(*   [kind "blank"]                   ''                                    *)
(*   [kind "text"]                    any other line                        *)
(***************************************************************************)
LowerCase == {"a", "b"}

Digits == {"1"}

\* c.lower()
Lower(c) == IF c = "A" THEN "a" ELSE c

\* ord(c), for the characters of the model
Ord(c) ==
    CASE c = " " -> 32 [] c = "," -> 44 [] c = "-" -> 45 [] c = "1" -> 49
      [] c = "A" -> 65 [] c = "a" -> 97 [] c = "b" -> 98

RECURSIVE StrLess(_, _)
\* s < t for Python strings
StrLess(s, t) ==
    IF t = <<>> THEN FALSE
    ELSE IF s = <<>> THEN TRUE
    ELSE IF s[1] # t[1] THEN Ord(s[1]) < Ord(t[1])
    ELSE StrLess(Tail(s), Tail(t))

RECURSIVE SubNonId(_, _)
\* _non_id_chars.sub('-', s) on the lowered string: each run of characters
\* outside [a-z0-9] becomes one '-' (inrun: the previous one was outside)
SubNonId(s, inrun) ==
    IF s = <<>> THEN <<>>
    ELSE IF Lower(s[1]) \in LowerCase \cup Digits
    THEN <<Lower(s[1])>> \o SubNonId(Tail(s), FALSE)
    ELSE IF inrun THEN SubNonId(Tail(s), TRUE)
    ELSE <<"-">> \o SubNonId(Tail(s), TRUE)

RECURSIVE DropLeading(_, _)
DropLeading(s, chars) ==
    IF s # <<>> /\ s[1] \in chars THEN DropLeading(Tail(s), chars) ELSE s

RECURSIVE DropTrailing(_, _)
DropTrailing(s, chars) ==
    IF s # <<>> /\ Last(s) \in chars THEN DropTrailing(Front(s), chars) ELSE s

\* docutils.nodes.make_id(string): lower, _non_id_chars.sub('-', ...),
\* _non_id_at_ends.sub('', ...) with _non_id_at_ends = '^[-0-9]+|-+$'
make_id(string) ==
    DropTrailing(DropLeading(SubNonId(string, FALSE), Digits \cup {"-"}), {"-"})

\* marker.format_title_to_example_id(title)
format_title_to_example_id(title) == make_id(title)

\* str.strip() on a sequence of characters
Strip(s) == DropTrailing(DropLeading(s, {" "}), {" "})

RECURSIVE SplitFrom(_, _, _)
\* s.split(sep): cur is the item being read
SplitFrom(s, sep, cur) ==
    IF s = <<>> THEN <<cur>>
    ELSE IF Len(s) >= Len(sep) /\ SubSeq(s, 1, Len(sep)) = sep
    THEN <<cur>> \o SplitFrom(SubSeq(s, Len(sep) + 1, Len(s)), sep, <<>>)
    ELSE SplitFrom(Tail(s), sep, Append(cur, s[1]))

Split(s, sep) == SplitFrom(s, sep, <<>>)

\* set([t.strip() for t in items])
StrippedSet(items) == {Strip(items[i]) : i \in DOMAIN items}

\* tags of a match whose 'tags' group did not take part
NoTagOption == <<>>

\* set([t.strip() for t in tag_option.split(', ')]) or set()
TagsOfOption(tag_option) ==
    IF tag_option # NoTagOption
    THEN StrippedSet(Split(tag_option, <<",", " ">>))
    ELSE {}

\* EXAMPLE_PATTERN matches at the start of line i of the text: the
\* directive at column 0 with its title, the newline, and then the tags
\* option or the end of a line
MatchesAt(lines, i) ==
    /\ lines[i].kind = "example"
    /\ lines[i].indent = 0
    /\ i < Len(lines)
    /\ lines[i + 1].kind \in {"tags", "blank"}

\* m.group('tags') of the match at line i (NoTagOption for None)
TagsGroup(lines, i) ==
    IF lines[i + 1].kind = "tags" THEN lines[i + 1].value ELSE NoTagOption

\* the line after the match at line i
MatchEnd(lines, i) == IF lines[i + 1].kind = "tags" THEN i + 2 ELSE i + 1

RECURSIVE DetectFrom(_, _, _)
\* for m in EXAMPLE_PATTERN.finditer(text): examples.append({...}), from
\* line i on
DetectFrom(lines, i, src_docname) ==
    IF i > Len(lines) THEN <<>>
    ELSE IF MatchesAt(lines, i)
    THEN <<[title |-> lines[i].title,
            tags |-> TagsOfOption(TagsGroup(lines, i)),
            src_docname |-> src_docname]>>
         \o DetectFrom(lines, MatchEnd(lines, i), src_docname)
    ELSE DetectFrom(lines, i + 1, src_docname)

\* preprocessor.detect_examples(filepath, env) on the text of the file,
\* env.path2doc(filepath) being docname
detect_examples(lines, docname) == DetectFrom(lines, 1, SlashPlus(docname))

(***************************************************************************)
(* preprocess_example_pages                                                *)
(***************************************************************************)
\* app.config.astropy_examples_dir
astropy_examples_dir == <<"examples">>

\* os.path.join(app.config.astropy_examples_dir, 'tags')
tags_dir == PathJoin(astropy_examples_dir, <<"tags">>)

\* os.path.join(app.srcdir, directory, name + '.rst'), relative to srcdir:
\* the directory and the name of the file
RstFile(directory, name) == [dir |-> directory, file |-> name \o <<".rst">>]

\* lines 62-70: the docname and the file path of the page of one example
WithPage(example) ==
    [title |-> example.title,
     tags |-> example.tags,
     src_docname |-> example.src_docname,
     example_id |-> format_title_to_example_id(example.title),
     docname |-> format_title_to_example_id(example.title),
     filepath |-> RstFile(astropy_examples_dir,
                          format_title_to_example_id(example.title))]

WithPages(examples) == [i \in DOMAIN examples |-> WithPage(examples[i])]

RECURSIVE InsertByTitle(_, _)
\* e put into the sorted list, after the examples whose title is not greater
InsertByTitle(sorted, e) ==
    IF sorted = <<>> THEN <<e>>
    ELSE IF StrLess(e.title, sorted[1].title) THEN <<e>> \o sorted
    ELSE <<sorted[1]>> \o InsertByTitle(Tail(sorted), e)

RECURSIVE SortByTitle(_, _)
\* found_examples.sort(key=lambda x: x['title']): a stable sort
SortByTitle(examples, sorted) ==
    IF examples = <<>> THEN sorted
    ELSE SortByTitle(Tail(examples), InsertByTitle(sorted, examples[1]))

\* all_tags of the first example only
all_tags_of_first(examples) ==
    IF examples = <<>> THEN {} ELSE examples[1].tags

\* lines 76-78: all_tags.update(example['tags']) for every example
all_tags(examples) == UNION {examples[i].tags : i \in DOMAIN examples}

\* lines 79-88: the table of the tags
TagTable(tagnames) ==
    [tagname \in tagnames |->
        [tag |-> tagname,
         filepath |-> RstFile(tags_dir, tagname),
         docname |-> tagname]]

\* open(filepath, 'w') ... fh.write(content): the file now holds the page
WritePage(files, filepath, page) ==
    [f \in DOMAIN files \cup {filepath} |->
        IF f = filepath THEN page ELSE files[f]]

(***************************************************************************)
(* The document being parsed (docutils.nodes.document), as the attributes  *)
(* the directive reads and writes:                                         *)
(*   sub_defs          the substitution_definition nodes of its tree       *)
(*   substitution_defs name -> id of the node noted under that name        *)
(*   duplicates        names note_substitution_def reported as duplicate   *)
(*   footnotes, autofootnotes, footnote_refs, autofootnote_refs            *)
(*                     the nodes noted by the note_* methods, in order     *)
(* A substitution_definition node is [id, names]; ids tell apart two nodes *)
(* with the same names: i > 0 is the i-th definition of the example,       *)
(* -i the i-th definition of the document.                                 *)
(***************************************************************************)
SubNames == {"x", "y"}

NameSets == (SUBSET SubNames) \ {{}}

\* docutils document.note_substitution_def(subdef, def_name)
note_substitution_def(document, n, name) ==
    [document EXCEPT
        !.duplicates = IF name \in DOMAIN document.substitution_defs
                       THEN @ \cup {name} ELSE @,
        !.substitution_defs =
            [k \in DOMAIN @ \cup {name} |-> IF k = name THEN n.id ELSE @[k]]]

RECURSIVE NoteUnderNames(_, _, _)
\* for name in names: document.note_substitution_def(n, name)
NoteUnderNames(document, n, names) ==
    IF names = {} THEN document
    ELSE LET name == CHOOSE x \in names : TRUE
         IN  NoteUnderNames(note_substitution_def(document, n, name),
                            n, names \ {name})

\* for n in document.traverse(nodes.substitution_definition):
\*     for name in n['names']: existing_sub_def_names.add(name)
existing_sub_def_names(document) ==
    UNION {document.sub_defs[i].names : i \in DOMAIN document.sub_defs}

RECURSIVE MergeFrom(_, _, _, _)
\* the loop of _merge_substitution_definitions over example_sub_defs
MergeFrom(document, defs, existing, new_sub_defs) ==
    IF defs = <<>> THEN [document |-> document, new_sub_defs |-> new_sub_defs]
    ELSE LET n == defs[1]
         IN  IF n.names \cap existing = {}
             THEN MergeFrom(NoteUnderNames(document, n, n.names), Tail(defs),
                            existing, Append(new_sub_defs, n))
             ELSE MergeFrom(document, Tail(defs), existing, new_sub_defs)

\* _merge_substitution_definitions that never looks at the document
merge_substitution_definitions_unchecked(document, example_sub_defs) ==
    MergeFrom(document, example_sub_defs, {}, <<>>)

\* ExampleContentDirective._merge_substitution_definitions
merge_substitution_definitions(document, example_sub_defs) ==
    MergeFrom(document, example_sub_defs, existing_sub_def_names(document), <<>>)

(***************************************************************************)
(* Footnotes.                                                              *)
(***************************************************************************)
Footnotes ==
    [kind : {"footnote"}, backrefs : {<<>>, <<"id1">>}, names : {<<>>, <<"1">>}]

FootnoteReferences ==
    [kind : {"footnote_reference"}, refid : {"id1"}]
        \cup [kind : {"footnote_reference"}, refname : {"1"}]
        \cup {[kind |-> "footnote_reference"]}

\* ExampleContentDirective._process_footnote
process_footnote(n, document) ==
    IF n.backrefs # <<>>
    THEN [node |-> n,
          document |-> [document EXCEPT !.footnotes = Append(@, n)],
          raised |-> FALSE]
    ELSE LET n1 == IF n.names # <<>> THEN [n EXCEPT !.names = <<>>] ELSE n
         IN  [node |-> n1,
              document |-> [document EXCEPT !.autofootnotes = Append(@, n1)],
              raised |-> FALSE]

\* ExampleContentDirective._process_footnote_reference; note_footnote_ref
\* files the reference under ref['refname'] (KeyError without one)
process_footnote_reference(n, document) ==
    IF "refid" \notin DOMAIN n
    THEN [node |-> n,
          document |-> [document EXCEPT !.autofootnote_refs = Append(@, n)],
          raised |-> FALSE]
    ELSE IF "refname" \in DOMAIN n
    THEN [node |-> n,
          document |-> [document EXCEPT !.footnote_refs = Append(@, n)],
          raised |-> FALSE]
    ELSE [node |-> n, document |-> document, raised |-> TRUE]

(***************************************************************************)
(* ExampleContentDirective.run                                             *)
(***************************************************************************)
Paragraph == [kind |-> "paragraph"]

\* 'Example {} not found in the environment'.format(example_id)
NotFoundMessage(example_id) ==
    <<"Example ">> \o example_id \o <<" not found in the environment">>

\* nodes.Text(message, message)
Text(message) == [kind |-> "Text", text |-> message]

\* a helper that leaves the document alone
NodeOnly(r, document) ==
    [node |-> r.node, document |-> document, raised |-> r.raised]

\* the isinstance chain of run on one node of the content
AdaptNode(n, document, example, env_docname, wd) ==
    CASE n.kind = "pending_xref" ->
             NodeOnly(process_pending_xref(n, env_docname, wd), document)
      [] n.kind = "image" ->
             NodeOnly(process_pending_image(n, example.docname, wd), document)
      [] n.kind = "download_reference" ->
             NodeOnly(process_download_reference(n, env_docname, wd), document)
      [] n.kind = "reference" ->
             NodeOnly(process_reference(n, example.docname, env_docname, wd),
                      document)
      [] n.kind = "footnote" -> process_footnote(n, document)
      [] n.kind = "footnote_reference" ->
             process_footnote_reference(n, document)
      [] OTHER -> [node |-> n, document |-> document, raised |-> FALSE]

RECURSIVE Traverse(_, _, _, _, _, _)
RECURSIVE TraverseAfter(_, _, _, _, _, _)
\* for node in self.example['content_node'].traverse(): ... ; done holds the
\* nodes already visited, todo the ones still to visit
Traverse(done, todo, document, example, env_docname, wd) ==
    IF todo = <<>>
    THEN [content |-> done, document |-> document, raised |-> FALSE]
    ELSE TraverseAfter(done, todo,
                       AdaptNode(todo[1], document, example, env_docname, wd),
                       example, env_docname, wd)

\* the traversal once todo[1] was adapted with outcome r: an exception ends it
TraverseAfter(done, todo, r, example, env_docname, wd) ==
    IF r.raised
    THEN [content |-> done \o <<r.node>> \o Tail(todo),
          document |-> r.document, raised |-> TRUE]
    ELSE Traverse(Append(done, r.node), Tail(todo), r.document,
                  example, env_docname, wd)

\* self.env.sphinx_astropy_examples[self.example_id] succeeds
ExampleFound(env, example_id) ==
    env.has_examples /\ example_id \in DOMAIN env.sphinx_astropy_examples

\* what run leaves and returns once the content was traversed with outcome t
RunOutcome(env, example_id, new_nodes, t) ==
    [document |-> t.document,
     env |-> [env EXCEPT
                 !.sphinx_astropy_examples[example_id].content_node = t.content],
     new_sub_defs |-> new_nodes,
     returned |-> IF t.raised THEN [status |-> "raised", nodes |-> <<>>]
                  ELSE [status |-> "returned",
                        nodes |-> new_nodes \o <<[kind |-> "example_content",
                                                  children |-> t.content]>>]]

\* run from the merge of the substitution definitions, with outcome m, on
RunMerged(env, example_id, example, m, wd) ==
    RunOutcome(env, example_id, m.new_sub_defs,
               Traverse(<<>>, example.content_node, m.document, example,
                        env.docname, wd))

\* run once self.example is known
RunFound(document, env, example_id, example, wd) ==
    RunMerged(env, example_id, example,
              merge_substitution_definitions(
                  document, example.substitution_definitions),
              wd)

\* run once self.example_id is known
RunWithId(document, env, example_id, wd) ==
    IF ~ExampleFound(env, example_id)
    THEN [document |-> document, env |-> env, new_sub_defs |-> <<>>,
          returned |-> [status |-> "returned",
                        nodes |-> <<Text(NotFoundMessage(example_id))>>]]
    ELSE RunFound(document, env, example_id,
                  env.sphinx_astropy_examples[example_id], wd)

\* run that answers a missing example with an empty list of nodes
run_silent_when_missing(document, env, argument, wd) ==
    IF ~ExampleFound(env, Strip(argument))
    THEN [document |-> document, env |-> env, new_sub_defs |-> <<>>,
          returned |-> [status |-> "returned", nodes |-> <<>>]]
    ELSE RunWithId(document, env, Strip(argument), wd)

\* ExampleContentDirective.run: the document and the environment it leaves,
\* the list _merge_substitution_definitions gave it, and the value returned
\* (status "raised": an exception left run)
run(document, env, argument, wd) ==
    RunWithId(document, env, Strip(argument), wd)

(***************************************************************************)
(* State.                                                                  *)
(*  Node rewriting helpers, called one at a time:                          *)
(*   node       : the content node being adapted                           *)
(*   orig, prev : the node as it was parsed from the source page, and as   *)
(*                it was before the latest _process_* call                 *)
(*   applied    : number of _process_* calls made on node                  *)
(*   raised     : the latest call raised ValueError                        *)
(*   cwd, envdoc, exdoc : os.getcwd(), env.docname, example['docname']     *)
(*  The example-content directive:                                         *)
(*   document, env : state.document and its settings.env                   *)
(*   argument      : self.arguments[0]                                     *)
(*   new_sub_defs  : what _merge_substitution_definitions returned to run  *)
(*   returned      : what run returned (status "none" before it ran)       *)
(*   document0, env0 : document and env as they were when run was called   *)
(*  detect_examples on one source file:                                    *)
(*   text, text_docname : the lines of the file and its docname            *)
(*   examples           : the list detect_examples returned                *)
(*   detected           : detect_examples has returned                     *)
(*  preprocess_example_pages:                                              *)
(*   pc             : "detect" (lines 56-59), "pages" (lines 90-115),      *)
(*                    "done"                                               *)
(*   docs_left      : the found docs whose file is still to be read        *)
(*   found_examples : the list of that name                                *)
(*   tags           : the table of that name                               *)
(*   pos            : index in found_examples of the loop of lines 90-98   *)
(*   tags_left      : keys of tags the loop of lines 101-108 has to visit  *)
(*   example_calls, tag_calls : the calls of generate_example_page and     *)
(*                    generate_tag_page made so far                        *)
(*   files          : the pages written so far, by file path               *)
(***************************************************************************)
VARIABLES node, orig, prev, applied, raised, cwd, envdoc, exdoc,
          document, env, argument, new_sub_defs, returned, document0, env0,
          text, text_docname, examples, detected,
          pc, docs_left, found_examples, tags, pos, tags_left,
          example_calls, tag_calls, files

nodeVars == <<node, orig, prev, applied, raised, envdoc, exdoc>>

runVars == <<document, env, argument, new_sub_defs, returned, document0, env0>>

detectVars == <<text, text_docname, examples, detected>>

preVars == <<pc, docs_left, found_examples, tags, pos, tags_left,
             example_calls, tag_calls, files>>

vars == <<nodeVars, cwd, runVars, detectVars, preVars>>

MaxApply == 2       \* _process_* calls on one node

MaxItems == 3       \* nodes of one scenario of the directive: substitution
                    \* definitions of the document and of the example, plus
                    \* nodes of the example's content

MaxTitleLen == 2    \* characters of a title

MaxTagLen == 3      \* characters of the value of a :tags: option

MaxBlocks == 2      \* paragraphs and example directives of one source file


MaxExamples == 3    \* examples detected in the whole project

NotRun == [status |-> "none", nodes |-> <<>>]

EmptyDocument ==
    [sub_defs |-> <<>>, substitution_defs |-> <<>>, duplicates |-> {},
     footnotes |-> <<>>, autofootnotes |-> <<>>,
     footnote_refs |-> <<>>, autofootnote_refs |-> <<>>]

NoEnv == [has_examples |-> FALSE, sphinx_astropy_examples |-> <<>>,
          docname |-> <<"ex">>]

NodesIdle ==
    /\ node = NoNode /\ orig = NoNode /\ prev = NoNode
    /\ applied = 0 /\ raised = FALSE
    /\ envdoc = <<"ex">> /\ exdoc = <<"index">>

RunIdle ==
    /\ document = EmptyDocument /\ document0 = EmptyDocument
    /\ env = NoEnv /\ env0 = NoEnv
    /\ argument = <<"e">>
    /\ new_sub_defs = <<>>
    /\ returned = NotRun

DetectIdle ==
    /\ text = <<[kind |-> "blank"]>> /\ text_docname = <<"index">>
    /\ examples = <<>> /\ detected = FALSE

PreIdle ==
    /\ pc = "idle" /\ docs_left = {} /\ found_examples = <<>>
    /\ tags = <<>> /\ pos = 0 /\ tags_left = {}
    /\ example_calls = <<>> /\ tag_calls = <<>> /\ files = <<>>

InitNodes ==
    /\ node \in PendingXrefs \cup Images \cup DownloadReferences \cup References
    /\ orig = node
    /\ prev = NoNode
    /\ applied = 0
    /\ raised = FALSE
    /\ cwd \in Cwds
    /\ envdoc \in PageDocnames
    /\ exdoc \in SourceDocnames
    /\ RunIdle /\ DetectIdle /\ PreIdle

Applied(r) ==
    /\ applied < MaxApply
    /\ ~raised
    /\ prev' = node
    /\ node' = r.node
    /\ raised' = r.raised
    /\ applied' = applied + 1
    /\ UNCHANGED <<orig, cwd, envdoc, exdoc, runVars, detectVars, preVars>>

ProcessPendingXref ==
    /\ node.kind = "pending_xref"
    /\ Applied(process_pending_xref(node, envdoc, cwd))

ProcessPendingImage ==
    /\ node.kind = "image"
    /\ Applied(process_pending_image(node, exdoc, cwd))

ProcessDownloadReference ==
    /\ node.kind = "download_reference"
    /\ Applied(process_download_reference(node, envdoc, cwd))

ProcessReference ==
    /\ node.kind = "reference"
    /\ Applied(process_reference(node, exdoc, envdoc, cwd))

NextNodes ==
    \/ ProcessPendingXref
    \/ ProcessPendingImage
    \/ ProcessDownloadReference
    \/ ProcessReference

SpecNodes == InitNodes /\ [][NextNodes]_vars

(***************************************************************************)
(* The example-content directive on one page.                              *)
(***************************************************************************)
\* strings of the content nodes of a directive scenario
RunStrs == {<<"a">>, EmptyStr}

\* the nodes an example's content is made of
ContentNodes ==
    [kind : {"pending_xref"}, refdoc : {<<"a", "page">>}, reftarget : RunStrs,
     refdomain : {"std"}, reftype : {"doc"}]
    \cup [kind : {"image"}, uri : {<<"a">>}]
    \cup [kind : {"download_reference"}, refdoc : {<<"a", "page">>},
          reftarget : {<<"a">>}]
    \cup [kind : {"reference"}, refuri : {<<"a">>}]
    \cup Footnotes \cup FootnoteReferences \cup {Paragraph}

\* the substitution_definition nodes with the given names; sign is 1 for
\* the example's and -1 for the document's
SubDefNodes(names, sign) ==
    [i \in 1..Len(names) |-> [id |-> sign * i, names |-> names[i]]]

RECURSIVE NoteAll(_, _)
\* the document after the parser noted the definitions of its own tree
NoteAll(d, defs) ==
    IF defs = <<>> THEN d
    ELSE NoteAll(NoteUnderNames(d, defs[1], defs[1].names), Tail(defs))

ParsedDocument(names) ==
    LET defs == SubDefNodes(names, -1)
    IN  NoteAll([EmptyDocument EXCEPT !.sub_defs = defs], defs)

ExampleIds == {<<"e">>, <<"f">>}

InitRun ==
    /\ NodesIdle /\ DetectIdle /\ PreIdle
    /\ cwd = <<"", "w">>
    /\ \E i, j, k \in 0..MaxItems :
         /\ i + j + k <= MaxItems
         /\ \E dn \in [1..i -> NameSets], en \in [1..j -> NameSets],
               content \in [1..k -> ContentNodes] :
              /\ document = ParsedDocument(dn)
              /\ \/ /\ j = 0 /\ k = 0
                    /\ env \in {NoEnv, [NoEnv EXCEPT !.has_examples = TRUE]}
                 \/ env = [has_examples |-> TRUE,
                           sphinx_astropy_examples |->
                               [x \in {<<"e">>} |->
                                   [docname |-> <<"a", "page">>,
                                    substitution_definitions |->
                                        SubDefNodes(en, 1),
                                    content_node |-> content]],
                           docname |-> <<"ex">>]
    /\ argument \in ExampleIds
    /\ document0 = document
    /\ env0 = env
    /\ new_sub_defs = <<>>
    /\ returned = NotRun

Ran(r) ==
    /\ document' = r.document
    /\ env' = r.env
    /\ new_sub_defs' = r.new_sub_defs
    /\ returned' = r.returned
    /\ UNCHANGED <<nodeVars, cwd, argument, document0, env0,
                   detectVars, preVars>>

\* the directive is run on the page
Run ==
    /\ returned.status = "none"
    /\ Ran(run(document, env, argument, cwd))

NextRun == Run

SpecRun == InitRun /\ [][NextRun]_vars

(***************************************************************************)
(* Source files.                                                           *)
(***************************************************************************)
TitleChars == {"a", "A", " "}

TagChars == {"a", ",", " "}

\* the titles an example directive can have: one character at least that
\* is not a blank
Titles == {t \in NonEmptySeqsUpTo(TitleChars, MaxTitleLen) : Strip(t) # <<>>}

\* the values a :tags: option can have, written without blanks at the ends
TagOptions ==
    {v \in NonEmptySeqsUpTo(TagChars, MaxTagLen) : v[1] # " " /\ Last(v) # " "}

Blank == [kind |-> "blank"]

TextLine == [kind |-> "text"]

\* a paragraph of prose
ParagraphBlock == <<TextLine>>

\* an example directive: its marker line, its tags option if it has one, a
\* blank line and its content
ExampleBlock(indent, title, tag_option) ==
    <<[kind |-> "example", indent |-> indent, title |-> title]>>
    \o (IF tag_option = NoTagOption THEN <<>>
        ELSE <<[kind |-> "tags", value |-> tag_option]>>)
    \o <<Blank, TextLine>>

ExampleBlocks(indents, titles, tag_options) ==
    {ExampleBlock(i, t, g) : i \in indents, t \in titles, g \in tag_options}

RECURSIVE FileOf(_)
\* the lines of the file made of the blocks, a blank line after each
FileOf(blocks) ==
    IF blocks = <<>> THEN <<Blank>>
    ELSE blocks[1] \o FileOf(Tail(blocks))

Files(blocks, n) == {FileOf(bs) : bs \in SeqsUpTo(blocks, n)}

(***************************************************************************)
(* detect_examples on one source file.                                     *)
(***************************************************************************)
DetectFiles ==
    Files({ParagraphBlock}
              \cup ExampleBlocks({0, 3}, Titles, TagOptions \cup {NoTagOption}),
          MaxBlocks)

InitDetect ==
    /\ NodesIdle /\ RunIdle /\ PreIdle
    /\ cwd = <<"", "w">>
    /\ text \in DetectFiles
    /\ text_docname \in SourceDocnames
    /\ examples = <<>>
    /\ detected = FALSE

DetectExamples ==
    /\ ~detected
    /\ examples' = detect_examples(text, text_docname)
    /\ detected' = TRUE
    /\ UNCHANGED <<nodeVars, cwd, runVars, text, text_docname, preVars>>

NextDetect == DetectExamples

SpecDetect == InitDetect /\ [][NextDetect]_vars

(***************************************************************************)
(* preprocess_example_pages on a project.                                  *)
(***************************************************************************)
\* env.found_docs
FoundDocs == SourceDocnames

PreTitles == {<<"a">>, <<"A">>, <<"a", "1">>}

PreTagOptions == {NoTagOption, <<"a">>, <<"a", ",", " ", "b">>}

\* the source files of the project
PreFiles ==
    Files({ParagraphBlock} \cup ExampleBlocks({0}, PreTitles, PreTagOptions),
          MaxBlocks)

InitPre ==
    /\ NodesIdle /\ RunIdle /\ DetectIdle
    /\ cwd = <<"", "w">>
    /\ pc = "detect"
    /\ docs_left = FoundDocs
    /\ found_examples = <<>>
    /\ tags = <<>>
    /\ pos = 0
    /\ tags_left = {}
    /\ example_calls = <<>>
    /\ tag_calls = <<>>
    /\ files = <<>>

Found(docname, new_examples) ==
    /\ Len(found_examples) + Len(new_examples) <= MaxExamples
    /\ found_examples' = found_examples \o new_examples
    /\ docs_left' = docs_left \ {docname}
    /\ UNCHANGED <<nodeVars, cwd, runVars, detectVars, pc, tags, pos,
                   tags_left, example_calls, tag_calls, files>>

\* lines 56-59, one file: found_examples.extend(detect_examples(filepath, env))
DetectFile ==
    /\ pc = "detect"
    /\ \E docname \in docs_left, lines \in PreFiles :
           Found(docname, detect_examples(lines, docname))

Prepared(sorted, table) ==
    /\ found_examples' = sorted
    /\ tags' = table
    /\ tags_left' = DOMAIN table
    /\ pos' = 1
    /\ pc' = "pages"
    /\ UNCHANGED <<nodeVars, cwd, runVars, detectVars, docs_left,
                   example_calls, tag_calls, files>>

\* lines 61-88: the page of each example, the sort, the table of the tags
Prepare ==
    /\ pc = "detect"
    /\ docs_left = {}
    /\ Prepared(SortByTitle(WithPages(found_examples), <<>>),
                TagTable(all_tags(found_examples)))

\* lines 90-98, one example: generate_example_page writes the page
GenerateExamplePage ==
    /\ pc = "pages"
    /\ pos <= Len(found_examples)
    /\ example_calls' =
           Append(example_calls,
                  [title |-> found_examples[pos].title,
                   tags |-> found_examples[pos].tags,
                   example_id |-> found_examples[pos].example_id,
                   filepath |-> found_examples[pos].filepath,
                   taginfo |-> tags])
    /\ files' = WritePage(files, found_examples[pos].filepath,
                          [page |-> "example", example |-> pos])
    /\ pos' = pos + 1
    /\ UNCHANGED <<nodeVars, cwd, runVars, detectVars, pc, docs_left,
                   found_examples, tags, tags_left, tag_calls>>

\* lines 101-108, one tag: generate_tag_page writes the page of the tag
GenerateTagPage ==
    /\ pc = "pages"
    /\ pos > Len(found_examples)
    /\ \E tagname \in tags_left :
         /\ tag_calls' =
                Append(tag_calls,
                       [tagname |-> tagname,
                        filepath |-> tags[tagname].filepath,
                        examples |-> found_examples,
                        taginfo |-> tags])
         /\ files' = WritePage(files, tags[tagname].filepath,
                               [page |-> "tag", tag |-> tagname])
         /\ tags_left' = tags_left \ {tagname}
    /\ UNCHANGED <<nodeVars, cwd, runVars, detectVars, pc, docs_left,
                   found_examples, tags, pos, example_calls>>

\* lines 110-115: generate_landing_page, the last step
GenerateLandingPage ==
    /\ pc = "pages"
    /\ pos > Len(found_examples)
    /\ tags_left = {}
    /\ pc' = "done"
    /\ UNCHANGED <<nodeVars, cwd, runVars, detectVars, docs_left,
                   found_examples, tags, pos, tags_left, example_calls,
                   tag_calls, files>>

NextPre ==
    \/ DetectFile
    \/ Prepare
    \/ GenerateExamplePage
    \/ GenerateTagPage
    \/ GenerateLandingPage

SpecPre == InitPre /\ [][NextPre]_vars

(***************************************************************************)
(* Claims about the node rewriting helpers (checked under SpecNodes).      *)
(***************************************************************************)
\* s[1:] of a string that starts with '/'
DropFirstSlash(s) == IF StartsWithSlash(s) THEN Tail(s) ELSE s

\* sphinx.util.docname_join(basedocname, docname): the document a 'doc'
\* cross-reference with target docname names when it is resolved from page
\* basedocname
docname_join(basedocname, docname) ==
    DropFirstSlash(NormPath(
        PathJoin(PathJoin(SlashPlus(basedocname), <<"..">>), docname)))

IsRelativeDocXref(n) ==
    /\ n.kind = "pending_xref"
    /\ n.refdomain = "std"
    /\ n.reftype = "doc"
    /\ ~StartsWithSlash(n.reftarget)

\* C3: after _process_pending_xref on a std/doc cross-reference with a
\* relative target, the new target starts with '/' and, resolved from the
\* standalone page, names the document the original target named when
\* resolved from the original refdoc.
C3_RelativeTargetKeepsItsDocument ==
    (applied >= 1 /\ IsRelativeDocXref(prev) /\ ~raised) =>
        /\ StartsWithSlash(node.reftarget)
        /\ docname_join(node.refdoc, node.reftarget)
               = docname_join(prev.refdoc, prev.reftarget)

\* C8: _process_download_reference leaves the node unchanged when the target
\* starts with '/' or is an http(s) URI; for any other target refdoc becomes
\* the current docname and the new target starts with '/'.
C8_DownloadReferenceFrame ==
    (applied >= 1 /\ prev.kind = "download_reference") =>
        IF StartsWithSlash(prev.reftarget) \/ HTTP_URI(prev.reftarget)
        THEN node = prev /\ ~raised
        ELSE ~raised /\ node.refdoc = envdoc /\ StartsWithSlash(node.reftarget)

\* What C8 says, for the targets relpath accepts (non-empty ones).
DownloadReferenceFrameNonEmpty ==
    (applied >= 1 /\ prev.kind = "download_reference"
        /\ prev.reftarget # EmptyStr) => C8_DownloadReferenceFrame

\* C9: _process_pending_image leaves an http(s) uri and a uri that starts
\* with '/' unchanged, replaces any other uri by one that starts with '/',
\* and a second application to the same node changes nothing.
C9_ImageUriAbsoluteAndIdempotent ==
    (applied >= 1 /\ prev.kind = "image") =>
        /\ ~raised
        /\ IF HTTP_URI(prev.uri) \/ StartsWithSlash(prev.uri)
           THEN node = prev
           ELSE StartsWithSlash(node.uri) /\ [node EXCEPT !.uri = prev.uri] = prev
        /\ applied >= 2 => node = prev

C9_Witness ==
    /\ applied = 2
    /\ orig.kind = "image"
    /\ ~HTTP_URI(orig.uri)
    /\ ~StartsWithSlash(orig.uri)
    /\ node # orig
    /\ node = prev

\* joining uri onto the directory of the current docname and normalising
RoundTrip(uri) == NormPath(PathJoin(DirName(envdoc), uri))

RECURSIVE LeadingDotDots(_)
LeadingDotDots(s) ==
    IF s # <<>> /\ s[1] = ".." THEN 1 + LeadingDotDots(Tail(s)) ELSE 0

\* the refuri is a relative path that, normalised, climbs no higher than
\* the working directory is deep
StaysBelowRoot(uri) ==
    /\ ~StartsWithSlash(uri)
    /\ LeadingDotDots(NormPath(uri)) <= Len(DropEmpty(cwd))

IsLocalReference(n) ==
    n.kind = "reference" /\ "refuri" \in DOMAIN n /\ ~HTTP_URI(n.refuri)

\* C10 as stated: a reference without refuri or with an http(s) refuri is
\* unchanged; for any other refuri, joining the new refuri onto the directory
\* of the current docname and normalising gives the normalised original.
C10_ReferenceRoundTrip ==
    (applied >= 1 /\ prev.kind = "reference") =>
        IF IsLocalReference(prev)
        THEN RoundTrip(node.refuri) = NormPath(prev.refuri)
        ELSE node = prev

\* The round trip of the relative refuris that stay below the root of the
\* file system.
C10_ReferenceRoundTripBelowRoot ==
    (applied >= 1 /\ prev.kind = "reference") =>
        /\ ~raised
        /\ IF IsLocalReference(prev)
           THEN /\ [node EXCEPT !.refuri = prev.refuri] = prev
                /\ StaysBelowRoot(prev.refuri) =>
                       RoundTrip(node.refuri) = NormPath(prev.refuri)
           ELSE node = prev

C10_Witness ==
    /\ applied = 1
    /\ IsLocalReference(orig)
    /\ StaysBelowRoot(orig.refuri)
    /\ node.refuri # orig.refuri
    /\ RoundTrip(node.refuri) = NormPath(orig.refuri)

(***************************************************************************)
(* Claims about the example-content directive (checked under SpecRun).     *)
(***************************************************************************)
\* run was called with the ID of an example of the environment
RanOnExample ==
    returned.status # "none" /\ ExampleFound(env0, Strip(argument))

\* the example's substitution definitions, as run received them
GivenSubDefs ==
    env0.sphinx_astropy_examples[Strip(argument)].substitution_definitions

\* the names defined by the substitution definitions of the list defs
NamesOf(defs) == UNION {defs[i].names : i \in DOMAIN defs}

SharesNoNameWithDocument(n) == n.names \cap NamesOf(document0.sub_defs) = {}

\* each definition of new_sub_defs is noted under each of its names (the
\* latest one noted under a name is the one the document keeps), and nothing
\* else is noted
NotedExactlyNewSubDefs ==
    /\ DOMAIN document.substitution_defs
           = DOMAIN document0.substitution_defs \cup NamesOf(new_sub_defs)
    /\ \A name \in DOMAIN document.substitution_defs :
           IF name \in NamesOf(new_sub_defs)
           THEN \E i \in DOMAIN new_sub_defs :
                    /\ name \in new_sub_defs[i].names
                    /\ document.substitution_defs[name] = new_sub_defs[i].id
                    /\ \A j \in DOMAIN new_sub_defs :
                           (j > i) => name \notin new_sub_defs[j].names
           ELSE document.substitution_defs[name]
                    = document0.substitution_defs[name]

\* no name is defined by two substitution definitions of the list defs
NoNameDefinedTwice(defs) ==
    \A i, j \in DOMAIN defs : i # j => defs[i].names \cap defs[j].names = {}

\* the substitution definitions of the page once the returned ones are
\* inserted into it
PageSubDefs == document0.sub_defs \o new_sub_defs

MergeReturnsAndNotes ==
    /\ new_sub_defs = SelectSeq(GivenSubDefs, SharesNoNameWithDocument)
    /\ NotedExactlyNewSubDefs
    /\ document.sub_defs = document0.sub_defs

C7_MissingExampleOnlyWarns ==
    (returned.status # "none" /\ ~ExampleFound(env0, argument)) =>
        /\ returned = [status |-> "returned",
                       nodes |-> <<[kind |-> "Text",
                                    text |-> <<"Example ">> \o argument
                                        \o <<" not found in the environment">>]>>]
        /\ document = document0
        /\ env = env0
        /\ new_sub_defs = <<>>

C7_Witness ==
    /\ returned.status = "returned"
    /\ env0.has_examples
    /\ argument \notin DOMAIN env0.sphinx_astropy_examples
    /\ \E id \in DOMAIN env0.sphinx_astropy_examples :
           /\ env0.sphinx_astropy_examples[id].substitution_definitions # <<>>
           /\ env0.sphinx_astropy_examples[id].content_node # <<>>
    /\ Len(returned.nodes) = 1

(***************************************************************************)
(* Claims about detect_examples (SpecDetect).                              *)
(***************************************************************************)
RECURSIVE MatchedOptions(_, _)
\* the value of the tags option (NoTagOption without one) of each directive
\* EXAMPLE_PATTERN matches, from line i on
MatchedOptions(lines, i) ==
    IF i > Len(lines) THEN <<>>
    ELSE IF MatchesAt(lines, i)
    THEN <<TagsGroup(lines, i)>> \o MatchedOptions(lines, MatchEnd(lines, i))
    ELSE MatchedOptions(lines, i + 1)

\* the items of a comma-separated list, blanks around each removed
CommaSeparatedItems(tag_option) ==
    IF tag_option = NoTagOption THEN {}
    ELSE StrippedSet(Split(tag_option, <<",">>))

\* C5: the tags of each detected example are the set of the comma-separated
\* items of its :tags: option, with the blanks around each item removed, and
\* the empty set when the directive has no such option.
C5_TagsAreTheCommaSeparatedItems ==
    detected =>
        /\ Len(examples) = Len(MatchedOptions(text, 1))
        /\ \A k \in DOMAIN examples :
               examples[k].tags = CommaSeparatedItems(MatchedOptions(text, 1)[k])

\* the example directives of the file in file order, whatever their
\* indentation, each with its argument (the title without the blanks
\* around it)
DirectiveTitles(lines) ==
    [k \in DOMAIN SelectSeq(lines, LAMBDA l : l.kind = "example") |->
        Strip(SelectSeq(lines, LAMBDA l : l.kind = "example")[k].title)]

\* C6: detect_examples returns exactly one record per example directive of
\* the file, in file order, each with the directive's argument as its title
\* (compared without the blanks around it) and with '/' + docname as
\* src_docname.
C6_OneRecordPerDirective ==
    detected =>
        /\ Len(examples) = Len(DirectiveTitles(text))
        /\ \A k \in DOMAIN examples :
               /\ k \in DOMAIN DirectiveTitles(text)
               /\ Strip(examples[k].title) = DirectiveTitles(text)[k]
               /\ examples[k].src_docname = SlashPlus(text_docname)

\* the same for the files whose directives all start at column 0
C6_OneRecordPerDirectiveAtColumn0 ==
    (detected /\ \A i \in DOMAIN text :
                     text[i].kind = "example" => text[i].indent = 0) =>
        /\ Len(examples) = Len(DirectiveTitles(text))
        /\ \A k \in DOMAIN examples :
               /\ k \in DOMAIN DirectiveTitles(text)
               /\ Strip(examples[k].title) = DirectiveTitles(text)[k]
               /\ examples[k].src_docname = SlashPlus(text_docname)

(***************************************************************************)
(* Claims about preprocess_example_pages (SpecPre).                        *)
(***************************************************************************)
\* C1: preprocess_example_pages calls generate_example_page exactly once for
\* every detected example, and no two examples are written to the same file
\* path: when it is done, the file of every example holds the page of that
\* example.
C1_OnePagePerExample ==
    pc = "done" =>
        /\ Len(example_calls) = Len(found_examples)
        /\ \A k \in DOMAIN found_examples :
               /\ k \in DOMAIN example_calls
               /\ example_calls[k].title = found_examples[k].title
               /\ example_calls[k].filepath = found_examples[k].filepath
               /\ found_examples[k].filepath \in DOMAIN files
               /\ files[found_examples[k].filepath]
                      = [page |-> "example", example |-> k]
        /\ \A j, k \in DOMAIN found_examples :
               j # k => found_examples[j].filepath # found_examples[k].filepath

\* the same, without the pages surviving: one call per example
C1_OneCallPerExample ==
    pc = "done" =>
        /\ Len(example_calls) = Len(found_examples)
        /\ \A k \in DOMAIN found_examples :
               /\ k \in DOMAIN example_calls
               /\ example_calls[k].title = found_examples[k].title
               /\ example_calls[k].filepath = found_examples[k].filepath

\* C2: once built, the tag table has exactly one entry per distinct tag of
\* the detected examples; every call of generate_example_page gets that
\* table; and when the pages are done generate_tag_page was called exactly
\* once for each of its keys.
C2_OneEntryAndOnePagePerTag ==
    pc \in {"pages", "done"} =>
        /\ \A k \in DOMAIN found_examples :
               found_examples[k].tags \subseteq DOMAIN tags
        /\ \A tagname \in DOMAIN tags :
               /\ tags[tagname].tag = tagname
               /\ \E k \in DOMAIN found_examples :
                      tagname \in found_examples[k].tags
        /\ \A k \in DOMAIN example_calls :
               /\ example_calls[k].taginfo = tags
               /\ example_calls[k].tags \subseteq DOMAIN example_calls[k].taginfo
        /\ \A j, k \in DOMAIN tag_calls :
               j # k => tag_calls[j].tagname # tag_calls[k].tagname
        /\ \A k \in DOMAIN tag_calls : tag_calls[k].tagname \in DOMAIN tags
        /\ pc = "done" =>
               /\ {tag_calls[k].tagname : k \in DOMAIN tag_calls} = DOMAIN tags
               /\ \A tagname \in DOMAIN tags :
                      /\ tags[tagname].filepath \in DOMAIN files
                      /\ files[tags[tagname].filepath]
                             = [page |-> "tag", tag |-> tagname]

C2_Witness ==
    /\ pc = "done"
    /\ Cardinality(DOMAIN tags) = 2
    /\ Len(tag_calls) = 2
    /\ Len(found_examples) >= 2
    /\ \E j, k \in DOMAIN found_examples :
           /\ j # k
           /\ found_examples[j].tags # {}
           /\ found_examples[k].tags # {}
           /\ found_examples[j].tags # found_examples[k].tags

(***************************************************************************)
(* Claims about the footnotes of the example content (SpecRun).            *)
(***************************************************************************)
\* the nodes of the example's content when run was called
Content0 == env0.sphinx_astropy_examples[Strip(argument)].content_node

IsFootnote(n) == n.kind = "footnote"

IsFootnoteReference(n) == n.kind = "footnote_reference"

IsOrdinaryFootnote(n) == IsFootnote(n) /\ n.backrefs # <<>>

IsAutoFootnote(n) == IsFootnote(n) /\ n.backrefs = <<>>

IsAutoFootnoteReference(n) == IsFootnoteReference(n) /\ "refid" \notin DOMAIN n

IsOrdinaryFootnoteReference(n) == IsFootnoteReference(n) /\ "refid" \in DOMAIN n

\* the footnotes of nodes, their names emptied
WithoutNames(footnotes) ==
    [k \in DOMAIN footnotes |-> [footnotes[k] EXCEPT !.names = <<>>]]

\* every footnote and every footnote reference of the content was noted
\* once, in the list the claim names, the footnotes without backrefs with
\* empty names
FootnotesNotedOnce ==
    /\ document.footnotes
           = document0.footnotes \o SelectSeq(Content0, IsOrdinaryFootnote)
    /\ document.autofootnotes
           = document0.autofootnotes
                 \o WithoutNames(SelectSeq(Content0, IsAutoFootnote))
    /\ document.autofootnote_refs
           = document0.autofootnote_refs
                 \o SelectSeq(Content0, IsAutoFootnoteReference)
    /\ document.footnote_refs
           = document0.footnote_refs
                 \o SelectSeq(Content0, IsOrdinaryFootnoteReference)

\* the content holds footnotes, footnote references and paragraphs only
OnlyFootnoteNodes(nodes) ==
    \A k \in DOMAIN nodes :
        nodes[k].kind \in {"footnote", "footnote_reference", "paragraph"}

\* C11: once run was called on an example, every footnote of its content
\* is noted in the document exactly once: as an ordinary footnote with its
\* names unchanged when it has backrefs, as an auto-numbered footnote with
\* empty names when it has none; and every footnote_reference is noted
\* once: as an auto-numbered reference without refid, as an ordinary
\* footnote reference otherwise.  Stated for the contents made of
\* footnotes, footnote references and paragraphs.
C11_FootnotesNotedOnce ==
    (RanOnExample /\ OnlyFootnoteNodes(Content0)) => FootnotesNotedOnce

\* the same for the runs that return, whatever the content is made of
FootnotesNotedOnceWhenReturned ==
    (RanOnExample /\ returned.status = "returned") => FootnotesNotedOnce

\* a run that returned after noting a footnote of each kind, or a footnote
\* and a reference
FootnotesNotedWitness ==
    /\ RanOnExample
    /\ returned.status = "returned"
    /\ Len(document.footnotes) + Len(document.autofootnotes)
           + Len(document.autofootnote_refs) >= 2
    /\ document.autofootnotes # <<>>
    /\ \E k \in DOMAIN Content0 :
           IsAutoFootnote(Content0[k]) /\ Content0[k].names # <<>>
====
